---- MODULE Spec2Model ----
(***************************************************************************)
(* A model of the Classy SDK client (searpent/classy-sdk-python):          *)
(*   classy_sdk/utils.py    join_url, validate_iso_datetime, convert_image *)
(*   classy_sdk/api/api.py  ApiManager (the request executor)              *)
(*   classy_sdk/sdk/sdk.py  ClassySDK (the endpoint methods)               *)
(*                                                                         *)
(* Python strings are modelled as sequences of one-character strings, so   *)
(* that stripping, joining, suffix extraction and parsing are computed on  *)
(* the characters.                                                         *)
(***************************************************************************)
EXTENDS Integers, Sequences, FiniteSets, TLC

VARIABLES api, sdk, pc, frame, issued, fs, input, output

vars == <<api, sdk, pc, frame, issued, fs, input, output>>

(***************************************************************************)
(* Bounds of the model.                                                    *)
(***************************************************************************)
NumThreads == 2
MaxCalls == 3
MaxSegLen == 3
MaxSegs == 3
MaxRedirects == 1

Threads == 1..NumThreads

(***************************************************************************)
(* Python values.                                                          *)
(***************************************************************************)
\* Python's None.  Every other modelled value is a sequence of one-character
\* strings (a string) or of opaque items (a list), so None equals none of them.
None == <<"None">>

\* bool(x) of an optional string: None and "" are falsy.
Truthy(x) == x # None /\ x # <<>>

Digits == {"0", "1", "2", "3", "4", "5", "6", "7", "8", "9"}

DigitVal(c) ==
    CASE c = "0" -> 0 [] c = "1" -> 1 [] c = "2" -> 2 [] c = "3" -> 3
      [] c = "4" -> 4 [] c = "5" -> 5 [] c = "6" -> 6 [] c = "7" -> 7
      [] c = "8" -> 8 [] c = "9" -> 9

RECURSIVE IntOf(_)
\* int(s) of a string of decimal digits.
IntOf(s) ==
    IF s = <<>> THEN 0
    ELSE 10 * IntOf(SubSeq(s, 1, Len(s) - 1)) + DigitVal(s[Len(s)])

\* needle in s, for Python's `in` on strings.
Contains(s, needle) ==
    \E i \in 1..(Len(s) - Len(needle) + 1) :
        SubSeq(s, i, i + Len(needle) - 1) = needle

\* s.endswith(suffix)
EndsWith(s, suffix) ==
    /\ Len(s) >= Len(suffix)
    /\ SubSeq(s, Len(s) - Len(suffix) + 1, Len(s)) = suffix

(***************************************************************************)
(* utils.join_url                                                          *)
(***************************************************************************)
RECURSIVE lstrip(_)
lstrip(s) == IF s # <<>> /\ Head(s) = "/" THEN lstrip(Tail(s)) ELSE s

RECURSIVE rstrip(_)
rstrip(s) ==
    IF s # <<>> /\ s[Len(s)] = "/" THEN rstrip(SubSeq(s, 1, Len(s) - 1)) ELSE s

\* A plausible slip: only one separator is removed at each end.
strip_once(s) ==
    LET l == IF s # <<>> /\ Head(s) = "/" THEN Tail(s) ELSE s
    IN  IF l # <<>> /\ l[Len(l)] = "/" THEN SubSeq(l, 1, Len(l) - 1) ELSE l

\* str.strip("/"): every leading and every trailing "/" is removed.
strip(s) == rstrip(lstrip(s))

RECURSIVE join(_, _)
\* sep.join(parts)
join(sep, parts) ==
    IF parts = <<>> THEN <<>>
    ELSE IF Len(parts) = 1 THEN parts[1]
    ELSE parts[1] \o sep \o join(sep, Tail(parts))

\* A plausible slip: the result is stripped as a whole, which makes the
\* function associative but loses the separators of empty boundary segments.
join_url_stripped(components) ==
    strip(join(<<"/">>, [i \in DOMAIN components |-> strip(components[i])]))

\* join_url(*components); str(comp) of a string is the string itself.
join_url(components) ==
    join(<<"/">>, [i \in DOMAIN components |-> strip(components[i])])

(***************************************************************************)
(* pathlib: Path(p).suffix (POSIX flavour)                                 *)
(***************************************************************************)
RECURSIVE split(_, _)
\* s.split(sep) for a one-character separator.
split(s, sep) ==
    IF \A i \in 1..Len(s) : s[i] # sep THEN <<s>>
    ELSE LET i == CHOOSE j \in 1..Len(s) :
                      s[j] = sep /\ \A k \in 1..(j - 1) : s[k] # sep
         IN  <<SubSeq(s, 1, i - 1)>> \o split(SubSeq(s, i + 1, Len(s)), sep)

\* PurePath.name: the final path component; empty and "." components are
\* dropped when the path is parsed.
path_name(p) ==
    LET parts == SelectSeq(split(p, "/"), LAMBDA c : c # <<>> /\ c # <<".">>)
    IN  IF parts = <<>> THEN <<>> ELSE parts[Len(parts)]

\* str.rfind("."), 0-based, -1 when there is no dot.
rfind_dot(name) ==
    IF \A i \in 1..Len(name) : name[i] # "." THEN -1
    ELSE (CHOOSE i \in 1..Len(name) :
              name[i] = "." /\ \A k \in (i + 1)..Len(name) : name[k] # ".") - 1

\* A plausible slip: str.endswith-like extraction of the last four characters.
path_suffix_last4(p) ==
    IF Len(p) >= 4 THEN SubSeq(p, Len(p) - 3, Len(p)) ELSE <<>>

\* PurePath.suffix
path_suffix(p) ==
    LET name == path_name(p)
        i == rfind_dot(name)
    IN  IF 0 < i /\ i < Len(name) - 1
        THEN SubSeq(name, i + 1, Len(name))
        ELSE <<>>

PDF_SUFFIX == <<".", "p", "d", "f">>

(***************************************************************************)
(* utils.validate_iso_datetime:                                            *)
(*   datetime.strptime(timepoint, "%Y-%m-%dT%H:%M:%S.%fZ")                 *)
(* strptime compiles the format to the regular expression                  *)
(*   (\d\d\d\d)-(1[0-2]|0[1-9]|[1-9])-(3[0-1]|[1-2]\d|0[1-9]|[1-9]| [1-9]) *)
(*   T(2[0-3]|[0-1]\d|\d):([0-5]\d|\d):(6[0-1]|[0-5]\d|\d)\.([0-9]{1,6})Z  *)
(* matched case-insensitively at the start of the string, rejects          *)
(* unconverted trailing data, and then builds the datetime, which rejects  *)
(* year 0, a day beyond the month's length and a second above 59.          *)
(***************************************************************************)
IsDigit(c) == c \in Digits
Between(c, lo, hi) == IsDigit(c) /\ lo <= DigitVal(c) /\ DigitVal(c) <= hi

re_Y(x) == Len(x) = 4 /\ \A i \in 1..4 : IsDigit(x[i])

re_m(x) ==
    \/ Len(x) = 2 /\ x[1] = "1" /\ Between(x[2], 0, 2)
    \/ Len(x) = 2 /\ x[1] = "0" /\ Between(x[2], 1, 9)
    \/ Len(x) = 1 /\ Between(x[1], 1, 9)

re_d(x) ==
    \/ Len(x) = 2 /\ x[1] = "3" /\ Between(x[2], 0, 1)
    \/ Len(x) = 2 /\ Between(x[1], 1, 2) /\ IsDigit(x[2])
    \/ Len(x) = 2 /\ x[1] = "0" /\ Between(x[2], 1, 9)
    \/ Len(x) = 1 /\ Between(x[1], 1, 9)
    \/ Len(x) = 2 /\ x[1] = " " /\ Between(x[2], 1, 9)

re_H(x) ==
    \/ Len(x) = 2 /\ x[1] = "2" /\ Between(x[2], 0, 3)
    \/ Len(x) = 2 /\ Between(x[1], 0, 1) /\ IsDigit(x[2])
    \/ Len(x) = 1 /\ IsDigit(x[1])

re_M(x) ==
    \/ Len(x) = 2 /\ Between(x[1], 0, 5) /\ IsDigit(x[2])
    \/ Len(x) = 1 /\ IsDigit(x[1])

re_S(x) ==
    \/ Len(x) = 2 /\ x[1] = "6" /\ Between(x[2], 0, 1)
    \/ Len(x) = 2 /\ Between(x[1], 0, 5) /\ IsDigit(x[2])
    \/ Len(x) = 1 /\ IsDigit(x[1])

re_f(x) == Len(x) \in 1..6 /\ \A i \in 1..Len(x) : IsDigit(x[i])

\* The character at 1-based position i, or "" beyond the end.
At(s, i) == IF i \in 1..Len(s) THEN s[i] ELSE ""

\* The n characters from position a, or <<>> when they run past the end.
Sub(s, a, n) == IF a + n - 1 <= Len(s) THEN SubSeq(s, a, a + n - 1) ELSE <<>>

\* The groups the regular expression captures.
Groups(Y, m, d, H, M, S, f) ==
    [Y |-> Y, m |-> m, d |-> d, H |-> H, M |-> M, S |-> S, f |-> f]

IsLeap(y) == (y % 4 = 0 /\ y % 100 # 0) \/ y % 400 = 0

DaysInMonth(y, m) ==
    IF m = 2 THEN (IF IsLeap(y) THEN 29 ELSE 28)
    ELSE IF m \in {4, 6, 9, 11} THEN 30 ELSE 31

\* int(s), which ignores surrounding blanks.
IntOfField(s) == IntOf(SelectSeq(s, LAMBDA c : c # " "))

\* datetime(year, month, day, hour, minute, second, microsecond) is built.
datetime_ok(g) ==
    /\ IntOfField(g.Y) >= 1
    /\ IntOfField(g.d) <= DaysInMonth(IntOfField(g.Y), IntOfField(g.m))
    /\ IntOfField(g.S) <= 59

\* format_regex.match(data_string) followed by the test for unconverted
\* data: the regular expression matches a prefix of s and that prefix is all
\* of s, and the datetime is built of the captured groups.  The separators are not digits,
\* so the fields of a match are determined by s.
TimeRE_fullmatch(s) ==
    /\ re_Y(Sub(s, 1, 4))
    /\ At(s, 5) = "-"
    /\ \E lm \in 1..2 :
        /\ re_m(Sub(s, 6, lm))
        /\ At(s, 6 + lm) = "-"
        /\ \E ld \in 1..2 :
            /\ re_d(Sub(s, 7 + lm, ld))
            /\ At(s, 7 + lm + ld) \in {"T", "t"}
            /\ \E lH \in 1..2 :
                LET pH == 8 + lm + ld
                IN  /\ re_H(Sub(s, pH, lH))
                    /\ At(s, pH + lH) = ":"
                    /\ \E lM \in 1..2 :
                        LET pM == pH + lH + 1
                        IN  /\ re_M(Sub(s, pM, lM))
                            /\ At(s, pM + lM) = ":"
                            /\ \E lS \in 1..2 :
                                LET pS == pM + lM + 1
                                IN  /\ re_S(Sub(s, pS, lS))
                                    /\ At(s, pS + lS) = "."
                                    /\ \E lf \in 1..6 :
                                        LET pf == pS + lS + 1
                                        IN  /\ re_f(Sub(s, pf, lf))
                                            /\ At(s, pf + lf) \in {"Z", "z"}
                                            /\ pf + lf = Len(s)
                                            /\ datetime_ok(Groups(Sub(s, 1, 4),
                                                                  Sub(s, 6, lm),
                                                                  Sub(s, 7 + lm, ld),
                                                                  Sub(s, pH, lH),
                                                                  Sub(s, pM, lM),
                                                                  Sub(s, pS, lS),
                                                                  Sub(s, pf, lf)))

\* datetime.strptime succeeds (TRUE) or raises ValueError (FALSE).
strptime_ok(s) == TimeRE_fullmatch(s)

\* validate_iso_datetime(timepoint): the timepoint itself, or ValueError.
validate_iso_datetime(timepoint) ==
    IF strptime_ok(timepoint)
    THEN [raised |-> FALSE, value |-> timepoint]
    ELSE [raised |-> TRUE, value |-> <<>>]

(***************************************************************************)
(* Configuration and fixed strings.                                        *)
(***************************************************************************)
DefaultTimeout == 30
API_URL == <<"h", "/">>
API_TOKEN == <<"k">>
SOURCE == <<"s">>
APPLICATION_JSON == <<"application/json">>

CASES_URL == <<"/", "c", "a", "s", "e", "s">>
EXPORTS_URL == <<"/", "e", "x", "p", "o", "r", "t", "s">>
INSPECTIONS_URL == <<"/", "i", "n", "s", "p", "e", "c", "t", "i", "o", "n", "s">>
DELETE == <<"d", "e", "l", "e", "t", "e">>
CANCEL_DELETE ==
    <<"c", "a", "n", "c", "e", "l", "-", "d", "e", "l", "e", "t", "e">>
UPLOAD == <<"/", "u", "p", "l", "o", "a", "d">>
PDF_UPLOAD == <<"/", "p", "d", "f", "/", "u", "p", "l", "o", "a", "d">>
DOWNLOAD == <<"/", "d", "o", "w", "n", "l", "o", "a", "d">>
CSV_PREFIX ==
    <<"s", "e", "a", "r", "p", "e", "n", "t", "-", "c", "l", "a", "s", "s", "y", "-">>
CSV_EXT == <<".", "c", "s", "v">>
PERCENT_S == <<"%", "s">>
TRUE_STR == <<"t", "r", "u", "e">>

\* dict.update({k: v})
update(d, k, v) == (k :> v) @@ d

(***************************************************************************)
(* The server: the statuses and bodies a response can carry.               *)
(***************************************************************************)
Statuses == {102, 200, 201, 304, 404, 500}
JSON_OBJECT == <<"{", "}">>
Bodies == {JSON_OBJECT, <<"x">>, <<"a", "\n", "b">>}

\* The responses of a server that answers threads calling concurrently.
CoreResponses == {<<200, JSON_OBJECT>>, <<404, <<"x">>>>}

\* A plausible slip: only client errors raise.
raise_for_status_4xx(status) == 400 <= status /\ status < 500

\* Response.raise_for_status(): TRUE when it raises HTTPError, which it
\* does for the client errors (4xx) and the server errors (5xx).
raise_for_status(status) == 400 <= status /\ status < 600

\* Response.json(): of the modelled bodies only "{}" is a JSON text, and it
\* decodes to the empty dict.
json(text) ==
    IF text = JSON_OBJECT
    THEN [raised |-> FALSE, value |-> <<>>]
    ELSE [raised |-> TRUE, value |-> <<>>]

(***************************************************************************)
(* Files.  fs maps the path of each existing file to its content.          *)
(***************************************************************************)
\* os.linesep of the platforms the package runs on.
LineSeps == {<<"\n">>, <<"\r", "\n">>}

RECURSIVE write_text(_, _)
\* file.write(text) to a file opened in text mode with the default newline:
\* each "\n" is written as the platform's line separator.
write_text(text, linesep) ==
    IF text = <<>> THEN <<>>
    ELSE (IF Head(text) = "\n" THEN linesep ELSE <<Head(text)>>)
         \o write_text(Tail(text), linesep)

\* open(path, "w") succeeds: the path names a file, not a directory.
writable(path) == path # <<>> /\ path[Len(path)] # "/"

\* base64.b64encode(content).decode() of the modelled file contents.
b64encode(content) ==
    CASE content = <<"x">> -> <<"e", "A", "=", "=">>
      [] content = <<>> -> <<>>
      [] content = JSON_OBJECT -> <<"e", "3", "0", "=">>

\* A plausible slip: a file that cannot be opened is taken as empty.
convert_image_or_empty(filename) ==
    [raised |-> FALSE,
     value |-> IF filename \in DOMAIN fs THEN b64encode(fs[filename])
               ELSE <<>>]

\* convert_image(filename): the encoded content, or an OSError when the file
\* cannot be opened.
convert_image(filename) ==
    IF filename \in DOMAIN fs
    THEN [raised |-> FALSE, value |-> b64encode(fs[filename])]
    ELSE [raised |-> TRUE, value |-> <<>>]

(***************************************************************************)
(* Correlation ids.  uuid4() draws 122 random bits; it is modelled by its  *)
(* contract, a value that no earlier call returned.                        *)
(***************************************************************************)
UuidDigit == <<"1", "2", "3", "4", "5", "6", "7", "8", "9">>

uuid4 == <<"u", "u", "i", "d", "-", UuidDigit[Len(issued) + 1]>>

\* A plausible slip: the generated id is computed once and reused.
correlation_id_cached(correlation_id) ==
    IF ~Truthy(correlation_id) THEN <<"u", "u", "i", "d", "-", "1">>
    ELSE correlation_id

\* str(uuid.uuid4()) if not correlation_id else correlation_id
correlation_id_or_uuid(correlation_id) ==
    IF ~Truthy(correlation_id) THEN uuid4 ELSE correlation_id

\* The ids generated so far, once a method has resolved correlation_id to
\* the value `used`.
issued_after(correlation_id, used) ==
    IF ~Truthy(correlation_id) THEN Append(issued, used) ELSE issued

(***************************************************************************)
(* A thread's call.  pc[t] is "idle" before the first call, "query" once   *)
(* an endpoint method has built its request and entered ApiManager.query,  *)
(* "request" once query has chosen its headers, and "done" when the call   *)
(* has returned or raised.  frame[t] holds the call: the method and its    *)
(* arguments, the request handed to query, the requests put on the wire    *)
(* and the outcome.                                                        *)
(***************************************************************************)
NoDict == <<>>

\* No response received.
NoResponse == [status_code |-> 0, text |-> <<>>]

\* The outcome of a call: the value it returned, or the exception it raised
\* and the response the exception carries (an HTTPError carries one).
NoResult ==
    [kind |-> "none", exc |-> "", response |-> NoResponse, value |-> None]

NoFrame ==
    [method |-> "", args |-> <<>>, verb |-> "", url |-> <<>>,
     has_data |-> FALSE, data |-> NoDict,
     has_params |-> FALSE, params |-> NoDict,
     opened |-> <<>>, wire |-> <<>>, hops |-> 0, response |-> NoResponse,
     result |-> NoResult]

Raised(exc, response) ==
    [kind |-> "raise", exc |-> exc, response |-> response, value |-> None]

Returned(value) ==
    [kind |-> "return", exc |-> "", response |-> NoResponse, value |-> value]

\* A caller may start a call while fewer than MaxCalls ids have been generated.
CanCall(t) == pc[t] = "idle" /\ Len(issued) < MaxCalls

\* The method has built its request, having opened the files `opened` for
\* that, and calls self.api.query.
BeginOpened(t, m, args, verb, url, has_data, data, has_params, params, iss, opened) ==
    /\ pc' = [pc EXCEPT ![t] = "query"]
    /\ frame' = [frame EXCEPT ![t] =
                    [method |-> m, args |-> args, verb |-> verb, url |-> url,
                     has_data |-> has_data, data |-> data,
                     has_params |-> has_params, params |-> params,
                     opened |-> opened,
                     wire |-> <<>>, hops |-> 0, response |-> NoResponse,
                     result |-> NoResult]]
    /\ issued' = iss
    /\ UNCHANGED <<api, sdk, fs, input, output>>

\* The method has built its request and calls self.api.query.
Begin(t, m, args, verb, url, has_data, data, has_params, params, iss) ==
    BeginOpened(t, m, args, verb, url, has_data, data, has_params, params,
                iss, <<>>)

\* The method raises before it calls self.api.query, having opened, or
\* tried to open, the files `opened`.
RaiseOpened(t, m, args, exc, iss, opened) ==
    /\ pc' = [pc EXCEPT ![t] = "done"]
    /\ frame' = [frame EXCEPT ![t] =
                    [NoFrame EXCEPT !.method = m, !.args = args,
                                    !.opened = opened,
                                    !.result = Raised(exc, NoResponse)]]
    /\ issued' = iss
    /\ UNCHANGED <<api, sdk, fs, input, output>>

\* The method raises before it calls self.api.query.
Raise(t, m, args, exc, iss) == RaiseOpened(t, m, args, exc, iss, <<>>)

(***************************************************************************)
(* ApiManager.query                                                        *)
(***************************************************************************)
\* Lines 50-54: headers = self._headers, updated in place for a non-GET verb.
query_headers(t) ==
    /\ pc[t] = "query"
    /\ api' = IF frame[t].verb # "GET"
              THEN [api EXCEPT !.headers =
                        update(api.headers, "Content-Type", APPLICATION_JSON)]
              ELSE api
    /\ pc' = [pc EXCEPT ![t] = "request"]
    /\ UNCHANGED <<sdk, frame, issued, fs, input, output>>

\* The query string requests builds of params: a key whose value is None is
\* left out.
encode_params(params) ==
    [k \in {k \in DOMAIN params : params[k] # None} |-> params[k]]

\* The request as requests.request puts it on the wire: headers is the
\* instance's header dict as it is when the request is prepared.
WireRequest(t) ==
    [verb |-> frame[t].verb, url |-> frame[t].url,
     has_json |-> frame[t].has_data, json |-> frame[t].data,
     has_params |-> frame[t].has_params, params |-> frame[t].params,
     query |-> encode_params(frame[t].params),
     headers |-> api.headers, timeout |-> api.timeout]

\* f"searpent-classy-{self.source}-{exp_id}.csv" unless file_path is given.
csv_path(exp_id, file_path) ==
    IF file_path = None
    THEN CSV_PREFIX \o sdk.source \o <<"-">> \o exp_id \o CSV_EXT
    ELSE file_path

\* What the endpoint method makes of the response query returned.
Shaped(t, response) ==
    LET m == frame[t].method
    IN  IF m \in {"delete_case", "cancel_delete_case", "delete_inspection",
                  "cancel_delete_inspection"}
        THEN Returned(response)
        ELSE IF m = "get_export_csv"
        THEN IF writable(csv_path(frame[t].args.exp_id,
                                  frame[t].args.file_path))
             THEN Returned(None)
             ELSE Raised("OSError", NoResponse)
        ELSE IF json(response.text).raised
        THEN Raised("JSONDecodeError", NoResponse)
        ELSE IF m = "get_export_download_url"
        THEN Returned(None)
        ELSE Returned(json(response.text).value)

\* A plausible slip: the file is opened before the status is looked at.
writes_csv_whatever_status(t, status) ==
    /\ frame[t].method = "get_export_csv"
    /\ writable(csv_path(frame[t].args.exp_id, frame[t].args.file_path))

\* get_export_csv gets as far as writing its file: query has returned the
\* response instead of raising, and the file can be opened.
writes_csv(t, status) ==
    /\ ~raise_for_status(status)
    /\ frame[t].method = "get_export_csv"
    /\ writable(csv_path(frame[t].args.exp_id, frame[t].args.file_path))

\* Lines 56-65: one request, the server's response, raise_for_status, and
\* the calling method's shaping of the response; get_export_csv writes the
\* text of the response to its file (sdk.py, lines 545-546).
query_request(t, status, text) ==
    \E linesep \in LineSeps :
        LET response == [status_code |-> status, text |-> text]
            writes == writes_csv(t, status)
        IN  /\ pc[t] = "request"
            /\ pc' = [pc EXCEPT ![t] = "done"]
            /\ frame' = [frame EXCEPT
                            ![t].wire = Append(@, WireRequest(t)),
                            ![t].response = response,
                            ![t].result = IF raise_for_status(status)
                                          THEN Raised("HTTPError", response)
                                          ELSE Shaped(t, response)]
            /\ fs' = IF writes
                     THEN update(fs, csv_path(frame[t].args.exp_id,
                                              frame[t].args.file_path),
                                 write_text(text, linesep))
                     ELSE fs
            /\ UNCHANGED <<api, sdk, issued, input, output>>

\* Lines 56-63: requests.request follows redirects by default: the server
\* answers with a redirect and the HTTP client sends a further request
\* before query gets a response.  The guard caps the hops the model follows.
query_redirect(t) ==
    /\ pc[t] = "request"
    /\ frame[t].hops < MaxRedirects
    /\ frame' = [frame EXCEPT ![t].hops = @ + 1]
    /\ UNCHANGED <<api, sdk, pc, issued, fs, input, output>>

\* A plausible slip: a request that timed out is sent once more.
query_timeout_retry(t) ==
    /\ pc[t] = "request"
    /\ pc' = [pc EXCEPT ![t] = IF frame[t].wire = <<>> THEN "request"
                               ELSE "done"]
    /\ frame' = [frame EXCEPT
                    ![t].wire = Append(@, WireRequest(t)),
                    ![t].result = Raised("Timeout", NoResponse)]
    /\ UNCHANGED <<api, sdk, issued, fs, input, output>>

\* Lines 56-63: the request is sent and no response arrives within timeout.
query_timeout(t) ==
    /\ pc[t] = "request"
    /\ pc' = [pc EXCEPT ![t] = "done"]
    /\ frame' = [frame EXCEPT
                    ![t].wire = Append(@, WireRequest(t)),
                    ![t].result = Raised("Timeout", NoResponse)]
    /\ UNCHANGED <<api, sdk, issued, fs, input, output>>

\* The caller has the outcome of its call and is free to call again.
return(t) ==
    /\ pc[t] = "done"
    /\ pc' = [pc EXCEPT ![t] = "idle"]
    /\ frame' = [frame EXCEPT ![t] = NoFrame]
    /\ UNCHANGED <<api, sdk, issued, fs, input, output>>

(***************************************************************************)
(* ClassySDK: the endpoint methods.  Each action is the method up to its   *)
(* call of self.api.query, or up to the exception it raises before that.   *)
(***************************************************************************)
\* A plausible slip: the metadata key is set whether metadata is given or not.
with_metadata_always(data, metadata) == update(data, "metadata", metadata)

\* data.update({"metadata": metadata}) when metadata is given.
with_metadata(data, metadata) ==
    IF metadata # None THEN update(data, "metadata", metadata) ELSE data

list_cases(t, from_time, to_time) ==
    /\ CanCall(t)
    /\ LET args == [from_time |-> from_time, to_time |-> to_time]
       IN  IF validate_iso_datetime(from_time).raised
              \/ validate_iso_datetime(to_time).raised
           THEN Raise(t, "list_cases", args, "ValueError", issued)
           ELSE Begin(t, "list_cases", args, "GET",
                      join_url(<<sdk.url, sdk.cases_url>>),
                      FALSE, NoDict,
                      TRUE, ("from" :> from_time) @@ ("to" :> to_time)
                            @@ ("source" :> sdk.source),
                      issued)

get_case(t, case_id) ==
    /\ CanCall(t)
    /\ Begin(t, "get_case", [case_id |-> case_id], "GET",
             join_url(<<sdk.url, sdk.cases_url, case_id>>),
             FALSE, NoDict, FALSE, NoDict, issued)

get_case_with_photos(t, case_id) ==
    /\ CanCall(t)
    /\ Begin(t, "get_case_with_photos", [case_id |-> case_id], "GET",
             join_url(<<sdk.url, sdk.cases_url, case_id>>),
             FALSE, NoDict, TRUE, ("withPhotos" :> TRUE_STR), issued)

create_case(t, name, metadata) ==
    /\ CanCall(t)
    /\ Begin(t, "create_case", [name |-> name, metadata |-> metadata], "POST",
             join_url(<<sdk.url, sdk.cases_url>>),
             TRUE, with_metadata(("name" :> name) @@ ("source" :> sdk.source),
                                 metadata),
             FALSE, NoDict, issued)

update_case(t, case_id, name, correlation_id) ==
    /\ CanCall(t)
    /\ LET cid == correlation_id_or_uuid(correlation_id)
       IN  Begin(t, "update_case",
                 [case_id |-> case_id, name |-> name,
                  correlation_id |-> correlation_id], "PATCH",
                 join_url(<<sdk.url, sdk.cases_url, case_id>>),
                 TRUE, ("name" :> name) @@ ("correlation_id" :> cid),
                 FALSE, NoDict, issued_after(correlation_id, cid))

\* delete_case, cancel_delete_case, delete_inspection and
\* cancel_delete_inspection differ in the collection and the last segment.
DeleteLike(t, m, collection, id, last, correlation_id) ==
    /\ CanCall(t)
    /\ LET cid == correlation_id_or_uuid(correlation_id)
       IN  Begin(t, m, [id |-> id, correlation_id |-> correlation_id], "POST",
                 join_url(<<sdk.url, collection, id, last>>),
                 TRUE, ("correlation_id" :> cid),
                 FALSE, NoDict, issued_after(correlation_id, cid))

delete_case(t, case_id, correlation_id) ==
    DeleteLike(t, "delete_case", sdk.cases_url, case_id, DELETE,
               correlation_id)

cancel_delete_case(t, case_id, correlation_id) ==
    DeleteLike(t, "cancel_delete_case", sdk.cases_url, case_id,
               CANCEL_DELETE, correlation_id)

postpone_delete_case(t, case_id, ttl) ==
    /\ CanCall(t)
    /\ Begin(t, "postpone_delete_case", [id |-> case_id, ttl |-> ttl],
             "PATCH", join_url(<<sdk.url, sdk.cases_url, case_id>>),
             TRUE, ("ttl" :> ttl), FALSE, NoDict, issued)

\* The body of the four upload methods.
upload_data(photo, photo_id, filename, cid, metadata) ==
    with_metadata(("photo" :> photo) @@ ("photo_id" :> photo_id)
                  @@ ("filename" :> filename) @@ ("source" :> sdk.source)
                  @@ ("correlation_id" :> cid), metadata)

\* upload_photo and upload_pdf once the filename has been accepted:
\* photo_base64.decode() keeps the characters of the ASCII bytes.
UploadBytes(t, m, args, last) ==
    LET cid == correlation_id_or_uuid(args.correlation_id)
    IN  Begin(t, m, args, "PATCH",
              join_url(<<sdk.url, sdk.cases_url, args.case_id, last>>),
              TRUE, upload_data(args.base64, args.id, args.filename, cid,
                                args.metadata),
              FALSE, NoDict, issued_after(args.correlation_id, cid))

\* upload_photo_from_file and upload_pdf_from_file once the names have been
\* accepted: the correlation id is resolved before the file is read.
UploadFile(t, m, args, last) ==
    LET cid == correlation_id_or_uuid(args.correlation_id)
        photo == convert_image(args.file_path)
    IN  IF photo.raised
        THEN RaiseOpened(t, m, args, "OSError",
                         issued_after(args.correlation_id, cid),
                         <<args.file_path>>)
        ELSE BeginOpened(t, m, args, "PATCH",
                         join_url(<<sdk.url, sdk.cases_url, args.case_id,
                                    last>>),
                         TRUE, upload_data(photo.value, args.id,
                                           args.filename, cid, args.metadata),
                         FALSE, NoDict,
                         issued_after(args.correlation_id, cid),
                         <<args.file_path>>)

upload_photo(t, case_id, photo_base64, filename, photo_id, correlation_id, metadata) ==
    /\ CanCall(t)
    /\ UploadBytes(t, "upload_photo",
                   [case_id |-> case_id, base64 |-> photo_base64,
                    filename |-> filename, id |-> photo_id,
                    correlation_id |-> correlation_id,
                    metadata |-> metadata], UPLOAD)

upload_photo_from_file(t, case_id, file_path, filename, photo_id, correlation_id, metadata) ==
    /\ CanCall(t)
    /\ UploadFile(t, "upload_photo_from_file",
                  [case_id |-> case_id, file_path |-> file_path,
                   filename |-> filename, id |-> photo_id,
                   correlation_id |-> correlation_id,
                   metadata |-> metadata], UPLOAD)

upload_pdf(t, case_id, pdf_base64, filename, pdf_id, correlation_id, metadata) ==
    /\ CanCall(t)
    /\ LET args == [case_id |-> case_id, base64 |-> pdf_base64,
                    filename |-> filename, id |-> pdf_id,
                    correlation_id |-> correlation_id, metadata |-> metadata]
       IN  IF path_suffix(filename) # PDF_SUFFIX
           THEN Raise(t, "upload_pdf", args, "ValueError", issued)
           ELSE UploadBytes(t, "upload_pdf", args, PDF_UPLOAD)

upload_pdf_from_file(t, case_id, file_path, filename, pdf_id, correlation_id, metadata) ==
    /\ CanCall(t)
    /\ LET args == [case_id |-> case_id, file_path |-> file_path,
                    filename |-> filename, id |-> pdf_id,
                    correlation_id |-> correlation_id, metadata |-> metadata]
       IN  IF path_suffix(file_path) # PDF_SUFFIX
              \/ path_suffix(filename) # PDF_SUFFIX
           THEN Raise(t, "upload_pdf_from_file", args, "ValueError", issued)
           ELSE UploadFile(t, "upload_pdf_from_file", args, PDF_UPLOAD)

\* None if t is None else validate_iso_datetime(t), failing or not.
optional_time_raises(timepoint) ==
    timepoint # None /\ validate_iso_datetime(timepoint).raised

list_exports(t, exp_type, from_time, to_time) ==
    /\ CanCall(t)
    /\ LET args == [exp_type |-> exp_type, from_time |-> from_time,
                    to_time |-> to_time]
       IN  IF optional_time_raises(from_time) \/ optional_time_raises(to_time)
           THEN Raise(t, "list_exports", args, "ValueError", issued)
           ELSE Begin(t, "list_exports", args, "GET",
                      join_url(<<sdk.url, sdk.exports_url>>),
                      FALSE, NoDict,
                      TRUE, ("from" :> from_time) @@ ("to" :> to_time)
                            @@ ("source" :> sdk.source)
                            @@ ("type" :> exp_type),
                      issued)

get_export(t, exp_id) ==
    /\ CanCall(t)
    /\ Begin(t, "get_export", [exp_id |-> exp_id], "GET",
             join_url(<<sdk.url, sdk.exports_url, exp_id>>),
             FALSE, NoDict, FALSE, NoDict, issued)

get_export_csv(t, exp_id, file_path) ==
    /\ CanCall(t)
    /\ Begin(t, "get_export_csv", [exp_id |-> exp_id, file_path |-> file_path],
             "GET", join_url(<<sdk.url, sdk.exports_url, exp_id, DOWNLOAD>>),
             FALSE, NoDict, FALSE, NoDict, issued)

get_export_download_url(t, exp_id) ==
    /\ CanCall(t)
    /\ Begin(t, "get_export_download_url", [exp_id |-> exp_id], "GET",
             join_url(<<sdk.url, sdk.exports_url, exp_id>>),
             FALSE, NoDict, FALSE, NoDict, issued)

list_inspections(t, from_time, to_time) ==
    /\ CanCall(t)
    /\ LET args == [from_time |-> from_time, to_time |-> to_time]
       IN  IF optional_time_raises(from_time) \/ optional_time_raises(to_time)
           THEN Raise(t, "list_inspections", args, "ValueError", issued)
           ELSE Begin(t, "list_inspections", args, "GET",
                      join_url(<<sdk.url, sdk.inspections_url>>),
                      FALSE, NoDict,
                      TRUE, ("from" :> from_time) @@ ("to" :> to_time)
                            @@ ("source" :> sdk.source),
                      issued)

get_inspection(t, inspection_id) ==
    /\ CanCall(t)
    /\ Begin(t, "get_inspection", [inspection_id |-> inspection_id], "GET",
             join_url(<<sdk.url, sdk.inspections_url, inspection_id>>),
             FALSE, NoDict, FALSE, NoDict, issued)

get_inspection_with_photos(t, inspection_id) ==
    /\ CanCall(t)
    /\ Begin(t, "get_inspection_with_photos",
             [inspection_id |-> inspection_id], "GET",
             join_url(<<sdk.url, sdk.inspections_url, inspection_id>>),
             FALSE, NoDict, TRUE, ("withPhotos" :> TRUE_STR), issued)

\* A plausible slip: the schedule is not checked against the phone.
schedule_unchecked(phone, send_at) == FALSE

\* Line 672: send_at and not phone.
schedule_without_phone(phone, send_at) == Truthy(send_at) /\ ~Truthy(phone)

\* A plausible slip: only the percent sign is looked for.
lacks_percent(message) == ~Contains(message, <<"%">>)

\* Line 688: "%s" not in message.
lacks_placeholder(message) == ~Contains(message, PERCENT_S)

\* Lines 679-697: the body, the optional fields added when they are given.
inspection_data(name, required_fields, phone, message, send_at, metadata) ==
    LET d0 == ("name" :> name) @@ ("source" :> sdk.source)
              @@ ("requiredFields" :> required_fields)
        d1 == IF phone # None THEN update(d0, "phone", phone) ELSE d0
        d2 == IF message # None
              THEN update(d1, "invitationMessage", message) ELSE d1
        d3 == IF send_at # None THEN update(d2, "sendAt", send_at) ELSE d2
    IN  with_metadata(d3, metadata)

create_inspection(t, name, required_fields, phone, message, send_at, metadata) ==
    /\ CanCall(t)
    /\ LET args == [name |-> name, required_fields |-> required_fields,
                    phone |-> phone, message |-> message,
                    send_at |-> send_at, metadata |-> metadata]
       IN  IF schedule_without_phone(phone, send_at)
           THEN Raise(t, "create_inspection", args, "ValueError", issued)
           ELSE IF message # None /\ lacks_placeholder(message)
           THEN Raise(t, "create_inspection", args, "ValueError", issued)
           ELSE IF optional_time_raises(send_at)
           THEN Raise(t, "create_inspection", args, "ValueError", issued)
           ELSE Begin(t, "create_inspection", args, "POST",
                      join_url(<<sdk.url, sdk.inspections_url>>),
                      TRUE, inspection_data(name, required_fields, phone,
                                            message, send_at, metadata),
                      FALSE, NoDict, issued)

delete_inspection(t, inspection_id, correlation_id) ==
    DeleteLike(t, "delete_inspection", sdk.inspections_url, inspection_id,
               DELETE, correlation_id)

cancel_delete_inspection(t, inspection_id, correlation_id) ==
    DeleteLike(t, "cancel_delete_inspection", sdk.inspections_url,
               inspection_id, CANCEL_DELETE, correlation_id)

postpone_delete_inspection(t, inspection_id, ttl) ==
    /\ CanCall(t)
    /\ LET args == [id |-> inspection_id, ttl |-> ttl]
       IN  IF validate_iso_datetime(ttl).raised
           THEN Raise(t, "postpone_delete_inspection", args, "ValueError",
                      issued)
           ELSE Begin(t, "postpone_delete_inspection", args, "PATCH",
                      join_url(<<sdk.url, sdk.inspections_url, inspection_id>>),
                      TRUE, ("ttl" :> ttl), FALSE, NoDict, issued)

(***************************************************************************)
(* The arguments the callers pass.                                         *)
(***************************************************************************)
Timepoint(Y, m, d, T, H, M, S, frac, Z) ==
    Y \o <<"-">> \o m \o <<"-">> \o d \o T \o H \o <<":">> \o M \o <<":">>
      \o S \o frac \o Z

Y2022 == <<"2", "0", "2", "2">>
D00 == <<"0", "0">>
D01 == <<"0", "1">>
MS000 == <<".", "0", "0", "0">>

\* "2022-01-01T00:00:00.000Z"
TS_GOOD == Timepoint(Y2022, D01, D01, <<"T">>, D00, D00, D00, MS000, <<"Z">>)
\* "2022-1-1T0:0:0.0Z"
TS_SHORT ==
    Timepoint(Y2022, <<"1">>, <<"1">>, <<"T">>, <<"0">>, <<"0">>, <<"0">>,
              <<".", "0">>, <<"Z">>)
\* "2022-01-01"
TS_DATE == Y2022 \o <<"-">> \o D01 \o <<"-">> \o D01

A_PDF == <<"a", ".", "p", "d", "f">>
B_PDF == <<"b", ".", "p", "d", "f">>
A_TXT == <<"a", ".", "t", "x", "t">>
A_DIR == <<"d", "/">>
OUT_CSV == <<"o">>

FileNames ==
    { A_PDF, A_TXT, PDF_SUFFIX,
      <<"a", ".", "P", "D", "F">>,
      <<"a", ".", "p", "d", "f", "/">>,
      <<"a", ".", "p", "d", "f", "/", ".">>,
      <<"d", "/", ".", "p", "d", "f">>,
      <<".", ".", "p", "d", "f">>,
      <<"a", ".", "p", "d", "f", ".">>,
      <<"a", ".", "p", "d", "f", "/", "b">>,
      <<>> }

METADATA == <<"key=value">>
REQUIRED_FIELDS == <<"fieldId=requiredText">>
CASE_ID == <<"7">>
NAME == <<"n">>

\* The files that exist when the client is constructed.
InitialFiles == (A_PDF :> <<"x">>) @@ (OUT_CSV :> <<>>)

\* The arguments of the calls that run concurrently.
CoreArgs ==
    [ts |-> {TS_GOOD}, opt_ts |-> {None}, cid |-> {None},
     metadata |-> {None}, filename |-> {A_PDF}, file_path |-> {A_PDF},
     phone |-> {None}, message |-> {None}, send_at |-> {None},
     csv |-> {None}]

\* The arguments of the calls of a single caller.
AllArgs ==
    [ts |-> {TS_GOOD, TS_SHORT, TS_DATE},
     opt_ts |-> {None, TS_GOOD, TS_DATE},
     cid |-> {None, <<>>, <<"c">>},
     metadata |-> {None, METADATA},
     filename |-> FileNames,
     file_path |-> {A_PDF, B_PDF, A_TXT, <<"a", ".", "p", "d", "f", "/">>},
     phone |-> {None, <<>>, <<"7">>},
     message |-> {None, <<>>, <<"h", "i">>, PERCENT_S, <<"a", "%", "s", "b">>,
                  <<"%", "d">>},
     send_at |-> {None, <<>>, TS_GOOD, TS_SHORT, TS_DATE},
     csv |-> {None, OUT_CSV, A_DIR}]

(***************************************************************************)
(* The client.                                                             *)
(***************************************************************************)
\* No ApiManager, before construction or after a failed one.
NoApiManager ==
    [api_url |-> None, api_token |-> None, timeout |-> 0, headers |-> NoDict]

\* No ClassySDK.
NoClassySDK ==
    [source |-> None, url |-> None, cases_url |-> None, exports_url |-> None,
     inspections_url |-> None]

\* A plausible slip: the environment setting wins over the argument.
ApiManager_init_environ_first(api_url, api_token, timeout, environ) ==
    LET url == IF "API_URL" \in DOMAIN environ
               THEN environ["API_URL"] ELSE api_url
        token == IF "API_TOKEN" \in DOMAIN environ
                 THEN environ["API_TOKEN"] ELSE api_token
    IN  IF url = None \/ token = None
        THEN [raised |-> TRUE, value |-> NoApiManager]
        ELSE [raised |-> FALSE,
              value |-> [api_url |-> url, api_token |-> token,
                         timeout |-> timeout,
                         headers |-> ("x-api-key" :> token)]]

\* ApiManager.__init__(api_url, api_token, timeout) under the environment
\* environ: os.environ[...] raises KeyError for a name that is not set.
ApiManager_init(api_url, api_token, timeout, environ) ==
    IF \/ api_url = None /\ "API_URL" \notin DOMAIN environ
       \/ api_token = None /\ "API_TOKEN" \notin DOMAIN environ
    THEN [raised |-> TRUE, value |-> NoApiManager]
    ELSE LET url == IF api_url = None THEN environ["API_URL"] ELSE api_url
             token == IF api_token = None
                      THEN environ["API_TOKEN"] ELSE api_token
         IN  [raised |-> FALSE,
              value |-> [api_url |-> url, api_token |-> token,
                         timeout |-> timeout,
                         headers |-> ("x-api-key" :> token)]]

\* ClassySDK.__init__ once self.api has been constructed.
ClassySDK_init(source, manager) ==
    [source |-> source, url |-> manager.api_url, cases_url |-> CASES_URL,
     exports_url |-> EXPORTS_URL, inspections_url |-> INSPECTIONS_URL]

\* ApiManager.__init__ with api_url and api_token given.
ApiManager == ApiManager_init(API_URL, API_TOKEN, DefaultTimeout, <<>>).value

\* ClassySDK.__init__
ClassySDK == ClassySDK_init(SOURCE, ApiManager)

Constructed ==
    /\ api = ApiManager
    /\ sdk = ClassySDK
    /\ pc = [t \in Threads |-> "idle"]
    /\ frame = [t \in Threads |-> NoFrame]
    /\ issued = <<>>
    /\ fs = InitialFiles

Init ==
    /\ Constructed
    /\ input = <<>>
    /\ output = <<>>

\* Thread t calls an endpoint method with arguments drawn from A.
Calls(t, A) ==
  /\ CanCall(t)
  /\ \/ \E f \in A.ts, u \in A.ts : list_cases(t, f, u)
     \/ get_case(t, CASE_ID)
     \/ get_case_with_photos(t, CASE_ID)
     \/ \E md \in A.metadata : create_case(t, NAME, md)
     \/ \E c \in A.cid : update_case(t, CASE_ID, NAME, c)
     \/ \E c \in A.cid : delete_case(t, CASE_ID, c)
     \/ \E c \in A.cid : cancel_delete_case(t, CASE_ID, c)
     \/ \E ttl \in A.ts : postpone_delete_case(t, CASE_ID, ttl)
     \/ \E c \in A.cid, md \in A.metadata :
            upload_photo(t, CASE_ID, <<"e", "A", "=", "=">>, A_TXT, NAME, c, md)
     \/ \E p \in A.file_path, c \in A.cid, md \in A.metadata :
            upload_photo_from_file(t, CASE_ID, p, A_TXT, NAME, c, md)
     \/ \E fn \in A.filename, c \in A.cid, md \in A.metadata :
            upload_pdf(t, CASE_ID, <<"e", "A", "=", "=">>, fn, NAME, c, md)
     \/ \E p \in A.file_path, fn \in A.filename, c \in A.cid :
            upload_pdf_from_file(t, CASE_ID, p, fn, NAME, c, None)
     \/ \E f \in A.opt_ts, u \in A.opt_ts :
            list_exports(t, <<"regular">>, f, u)
     \/ get_export(t, CASE_ID)
     \/ \E p \in A.csv : get_export_csv(t, CASE_ID, p)
     \/ get_export_download_url(t, CASE_ID)
     \/ \E f \in A.opt_ts, u \in A.opt_ts : list_inspections(t, f, u)
     \/ get_inspection(t, CASE_ID)
     \/ get_inspection_with_photos(t, CASE_ID)
     \/ \E ph \in A.phone, msg \in A.message, at \in A.send_at,
           md \in A.metadata :
            create_inspection(t, NAME, REQUIRED_FIELDS, ph, msg, at, md)
     \/ \E c \in A.cid : delete_inspection(t, CASE_ID, c)
     \/ \E c \in A.cid : cancel_delete_inspection(t, CASE_ID, c)
     \/ \E ttl \in A.ts : postpone_delete_inspection(t, CASE_ID, ttl)

\* A step of thread t inside ApiManager.query, the server answering with one
\* of the responses R, and the return to the caller.
Query(t, R) ==
    \/ query_headers(t)
    \/ \E r \in R : query_request(t, r[1], r[2])
    \/ query_redirect(t)
    \/ query_timeout(t)
    \/ return(t)

\* Threads that share one client.
Next == \E t \in Threads : Calls(t, CoreArgs) \/ Query(t, CoreResponses)

Spec == Init /\ [][Next]_vars

\* A single caller, with every kind of argument.
NextSeq == Calls(1, AllArgs) \/ Query(1, Statuses \X Bodies)

SpecSeq == Init /\ [][NextSeq]_vars

(***************************************************************************)
(* join_url on its own: the segments are drawn when the behaviour starts.  *)
(***************************************************************************)
SegChars == {"/", "a"}

Segments == UNION { [1..n -> SegChars] : n \in 0..MaxSegLen }

SegmentLists == UNION { [1..n -> Segments] : n \in 0..MaxSegs }

InitJoin ==
    /\ Constructed
    /\ input \in SegmentLists
    /\ output = <<>>

\* join_url(*input)
join_url_call ==
    /\ output = <<>>
    /\ output' = <<[op |-> "join_url", value |-> join_url(input)]>>
    /\ UNCHANGED <<api, sdk, pc, frame, issued, fs, input>>

\* The three ways of joining three segments.
join_url_nested ==
    /\ output = <<>>
    /\ Len(input) = 3
    /\ output' =
         <<[op |-> "nested",
            flat |-> join_url(input),
            left |-> join_url(<<join_url(<<input[1], input[2]>>), input[3]>>),
            right |-> join_url(<<input[1], join_url(<<input[2], input[3]>>)>>)]>>
    /\ UNCHANGED <<api, sdk, pc, frame, issued, fs, input>>

NextJoin == join_url_call \/ join_url_nested

SpecJoin == InitJoin /\ [][NextJoin]_vars

(***************************************************************************)
(* validate_iso_datetime on its own.                                       *)
(***************************************************************************)
Years == {Y2022, <<"2", "0", "2", "4">>, <<"0", "0", "0", "0">>}
Months == {<<"0", "2">>, <<"2">>, <<"1", "3">>}
Days == {D01, <<"1">>, <<"2", "9">>, <<"3", "0">>, <<" ", "1">>}
DateTimeSeparators == {<<"T">>, <<"t">>, <<" ">>}
Hours == {D00, <<"0">>, <<"2", "4">>}
Minutes == {D00, <<"0">>}
Seconds == {D00, <<"6", "0">>}
Fractions ==
    { MS000, <<".", "0">>, <<".", "0", "0", "0", "0", "0", "0">>,
      <<".", "0", "0", "0", "0", "0", "0", "0">>, <<>> }
Zones == {<<"Z">>, <<"z">>, <<>>}

Timepoints ==
    { Timepoint(Y, m, d, T, H, M, S, f, Z) :
        Y \in Years, m \in Months, d \in Days, T \in DateTimeSeparators,
        H \in Hours, M \in Minutes, S \in Seconds, f \in Fractions,
        Z \in Zones }
    \cup {TS_GOOD, TS_SHORT, TS_DATE, <<>>}

InitTime ==
    /\ Constructed
    /\ input \in Timepoints
    /\ output = <<>>

\* validate_iso_datetime(input)
validate_call ==
    /\ output = <<>>
    /\ output' = <<[op |-> "validate_iso_datetime"]
                   @@ validate_iso_datetime(input)>>
    /\ UNCHANGED <<api, sdk, pc, frame, issued, fs, input>>

NextTime == validate_call

SpecTime == InitTime /\ [][NextTime]_vars

(***************************************************************************)
(* Construction on its own: the arguments and the environment are drawn    *)
(* when the behaviour starts.                                              *)
(***************************************************************************)
Timeouts == {5, 30, 60}

\* The environments: each of API_URL and API_TOKEN set, to a value or to
\* the empty string, or not set.
Environs ==
    { [k \in S |-> e[k]] :
        e \in [{"API_URL", "API_TOKEN"} -> {<<"e">>, <<>>}],
        S \in SUBSET {"API_URL", "API_TOKEN"} }

\* ClassySDK(source, api_url, api_token, timeout), each optional argument
\* given or omitted.
ConstructorArgs ==
    [source : {SOURCE}, api_url : {None, <<>>, API_URL},
     api_token : {None, <<>>, API_TOKEN},
     timeout_given : {FALSE}, timeout : {0}, environ : Environs]
    \cup
    [source : {SOURCE}, api_url : {None, <<>>, API_URL},
     api_token : {None, <<>>, API_TOKEN},
     timeout_given : {TRUE}, timeout : Timeouts, environ : Environs]

InitNew ==
    /\ api = NoApiManager
    /\ sdk = NoClassySDK
    /\ pc = [t \in Threads |-> "idle"]
    /\ frame = [t \in Threads |-> NoFrame]
    /\ issued = <<>>
    /\ fs = InitialFiles
    /\ input \in ConstructorArgs
    /\ output = <<>>

\* ClassySDK(**input): the timeout defaults to 30, the ApiManager is made
\* first, and a KeyError it raises leaves the caller without a client.
new_ClassySDK ==
    /\ output = <<>>
    /\ LET timeout == IF input.timeout_given
                      THEN input.timeout ELSE DefaultTimeout
           made == ApiManager_init(input.api_url, input.api_token, timeout,
                                   input.environ)
       IN  /\ output' = <<[op |-> "ClassySDK", raised |-> made.raised,
                           exc |-> IF made.raised THEN "KeyError" ELSE ""]>>
           /\ api' = made.value
           /\ sdk' = IF made.raised THEN NoClassySDK
                     ELSE ClassySDK_init(input.source, made.value)
    /\ UNCHANGED <<pc, frame, issued, fs, input>>

NextNew == new_ClassySDK

SpecNew == InitNew /\ [][NextNew]_vars

(***************************************************************************)
(* Properties.                                                             *)
(***************************************************************************)
Range(f) == { f[x] : x \in DOMAIN f }

\* The requests thread t has put on the wire in its current call.
Wire(t) == Range(frame[t].wire)

\* The call of thread t failed validation: ValueError, nothing sent.
FailedValidation(t) ==
    /\ pc[t] = "done"
    /\ frame[t].result.kind = "raise"
    /\ frame[t].result.exc = "ValueError"
    /\ frame[t].wire = <<>>

\* The call of thread t has passed its checks and entered ApiManager.query.
Issues(t) == pc[t] \in {"query", "request"} \/ frame[t].wire # <<>>

\* C1: the headers sent with a request depend only on the request's verb and
\* the configured token: a GET carries x-api-key alone, every other verb
\* carries x-api-key and the JSON Content-Type.
C1_HeadersDependOnVerbOnly ==
    \A t \in Threads : \A r \in Wire(t) :
        r.headers =
            IF r.verb = "GET"
            THEN ("x-api-key" :> api.api_token)
            ELSE ("x-api-key" :> api.api_token)
                 @@ ("Content-Type" :> APPLICATION_JSON)

\* The call of thread t is over and the server answered it.
Answered(t) == pc[t] = "done" /\ frame[t].response # NoResponse

\* C2, as claimed: query returns the response for every 2xx status and raises
\* an HTTPError carrying the response for every other status, and no method
\* returns a result built from a response outside 2xx.
C2_RaisesOutside2xx ==
    \A t \in Threads :
        Answered(t) =>
            LET st == frame[t].response.status_code
                ok == 200 <= st /\ st < 300
            IN  /\ ok => frame[t].result.exc # "HTTPError"
                /\ ~ok => frame[t].result
                             = Raised("HTTPError", frame[t].response)
                /\ frame[t].result.kind = "return" => ok

\* C2, amended: query raises an HTTPError carrying the status code and the
\* body for every status from 400 to 599 and returns the response for every
\* status below 400 (1xx, 2xx and 3xx alike); no method returns a result
\* built from a 4xx or 5xx response.
C2_RaisesFrom400 ==
    \A t \in Threads :
        Answered(t) =>
            LET st == frame[t].response.status_code
                err == 400 <= st /\ st < 600
            IN  /\ ~err => frame[t].result.exc # "HTTPError"
                /\ err => frame[t].result
                             = Raised("HTTPError", frame[t].response)
                /\ frame[t].result.kind = "return" => ~err

\* A 304 response to delete_case has been returned to the caller unraised.
C2_Witness ==
    \E t \in Threads :
        /\ Answered(t)
        /\ frame[t].method = "delete_case"
        /\ frame[t].response.status_code = 304
        /\ frame[t].result = Returned(frame[t].response)

CorrelationMethods ==
    {"update_case", "delete_case", "cancel_delete_case", "upload_photo",
     "upload_photo_from_file", "upload_pdf", "upload_pdf_from_file",
     "delete_inspection", "cancel_delete_inspection"}

\* The request body of thread t carries a correlation id.
SendsCorrelationId(t) ==
    frame[t].method \in CorrelationMethods /\ frame[t].has_data

\* id was generated exactly once.
FreshId(id) ==
    \E i \in DOMAIN issued :
        issued[i] = id /\ \A j \in DOMAIN issued : j # i => issued[j] # id

\* C3, as claimed: the body's correlation_id is the caller's value for every
\* string the caller supplies, and a freshly generated id when the caller
\* supplies none.
C3_VerbatimForEveryString ==
    \A t \in Threads :
        SendsCorrelationId(t) =>
            LET given == frame[t].args.correlation_id
                sent == frame[t].data["correlation_id"]
            IN  IF given # None THEN sent = given ELSE FreshId(sent)

\* C3, amended: the body's correlation_id is the caller's value for every
\* non-empty string the caller supplies; when the caller supplies none, or
\* the empty string, it is a generated id that no other call generated.
C3_VerbatimForNonEmptyString ==
    \A t \in Threads :
        SendsCorrelationId(t) =>
            LET given == frame[t].args.correlation_id
                sent == frame[t].data["correlation_id"]
            IN  IF given # None /\ given # <<>>
                THEN sent = given
                ELSE FreshId(sent)

\* A call given the empty string sends the third id generated.
C3_Witness ==
    \E t \in Threads :
        /\ SendsCorrelationId(t)
        /\ frame[t].args.correlation_id = <<>>
        /\ Len(issued) = 3
        /\ frame[t].data["correlation_id"] = issued[3]
        /\ frame[t].wire # <<>>

NoSlash(s) == \A i \in 1..Len(s) : s[i] # "/"

\* r can follow the final component of a path: separators and "." components.
Trailer(r) ==
    \A i \in 1..Len(r) :
        /\ r[i] \in {"/", "."}
        /\ r[i] = "." => /\ i > 1 /\ r[i - 1] = "/"
                         /\ (i = Len(r) \/ r[i + 1] = "/")

\* The final path component of p, the empty and the "." components aside,
\* is longer than ".pdf" and ends with it.
HasPdfExtension(p) ==
    \E i \in 1..Len(p) : \E j \in i..Len(p) :
        LET c == SubSeq(p, i, j)
        IN  /\ NoSlash(c)
            /\ c # <<".">>
            /\ i = 1 \/ p[i - 1] = "/"
            /\ j = Len(p) \/ p[j + 1] = "/"
            /\ Trailer(SubSeq(p, j + 1, Len(p)))
            /\ Len(c) > 4
            /\ EndsWith(c, PDF_SUFFIX)

\* Thread t is in a call of method m.
In(t, m) == pc[t] # "idle" /\ frame[t].method = m

\* The call of thread t goes through: it enters query and, once over, has
\* put exactly one request on the wire.
GoesThrough(t) ==
    /\ Issues(t)
    /\ pc[t] = "done" => Len(frame[t].wire) = 1

\* The call of thread t failed on its file: OSError, nothing sent.
FailedOnFile(t) ==
    /\ pc[t] = "done"
    /\ frame[t].result.kind = "raise"
    /\ frame[t].result.exc = "OSError"
    /\ frame[t].wire = <<>>

\* C4, as claimed: upload_pdf issues its request if and only if filename
\* ends with ".pdf", upload_pdf_from_file if and only if filename and
\* file_path both do; every other call fails validation with nothing sent.
C4_IssuesIffEndsWithPdf ==
    \A t \in Threads :
        /\ In(t, "upload_pdf") =>
              IF EndsWith(frame[t].args.filename, PDF_SUFFIX)
              THEN GoesThrough(t) ELSE FailedValidation(t)
        /\ In(t, "upload_pdf_from_file") =>
              IF /\ EndsWith(frame[t].args.filename, PDF_SUFFIX)
                 /\ EndsWith(frame[t].args.file_path, PDF_SUFFIX)
              THEN GoesThrough(t) ELSE FailedValidation(t)

\* C4, amended: upload_pdf issues its request if and only if the final path
\* component of filename is longer than ".pdf" and ends with it;
\* upload_pdf_from_file if and only if that holds of filename and of
\* file_path and the file can be read.  A call whose names fail the test
\* fails validation, one whose file cannot be read fails with an OSError,
\* and neither sends anything.
C4_IssuesIffPdfExtension ==
    \A t \in Threads :
        /\ In(t, "upload_pdf") =>
              IF HasPdfExtension(frame[t].args.filename)
              THEN GoesThrough(t) ELSE FailedValidation(t)
        /\ In(t, "upload_pdf_from_file") =>
              IF /\ HasPdfExtension(frame[t].args.filename)
                 /\ HasPdfExtension(frame[t].args.file_path)
              THEN IF frame[t].args.file_path \in DOMAIN fs
                   THEN GoesThrough(t) ELSE FailedOnFile(t)
              ELSE FailedValidation(t)

\* upload_pdf has sent its request for the filename "a.pdf/".
C4_Witness ==
    \E t \in Threads :
        /\ In(t, "upload_pdf")
        /\ frame[t].args.filename = <<"a", ".", "p", "d", "f", "/">>
        /\ Len(frame[t].wire) = 1
        /\ frame[t].wire[1].json["filename"] = frame[t].args.filename

\* s has the form YYYY-MM-DDTHH:MM:SS.mmmZ: zero-padded fields that name a
\* date and a time of day, three fractional digits, the letters T and Z.
IsoPattern(s) ==
    /\ Len(s) = 24
    /\ \A i \in {1, 2, 3, 4, 6, 7, 9, 10, 12, 13, 15, 16, 18, 19, 21, 22, 23} :
           IsDigit(s[i])
    /\ s[5] = "-" /\ s[8] = "-" /\ s[11] = "T"
    /\ s[14] = ":" /\ s[17] = ":" /\ s[20] = "." /\ s[24] = "Z"
    /\ IntOf(SubSeq(s, 1, 4)) >= 1
    /\ IntOf(SubSeq(s, 6, 7)) \in 1..12
    /\ IntOf(SubSeq(s, 9, 10)) \in
           1..DaysInMonth(IntOf(SubSeq(s, 1, 4)), IntOf(SubSeq(s, 6, 7)))
    /\ IntOf(SubSeq(s, 12, 13)) <= 23
    /\ IntOf(SubSeq(s, 15, 16)) <= 59
    /\ IntOf(SubSeq(s, 18, 19)) <= 59

\* validate_iso_datetime has been applied to input.
Validated ==
    output # <<>> /\ output[1].op = "validate_iso_datetime"

\* C5: validate_iso_datetime returns s unchanged when s has the form
\* YYYY-MM-DDTHH:MM:SS.mmmZ and raises for every other string.
C5_AcceptsExactlyIsoPattern ==
    Validated =>
        IF IsoPattern(input)
        THEN ~output[1].raised /\ output[1].value = input
        ELSE output[1].raised

\* The timestamps the caller supplied to the call of thread t.
Timestamps(t) ==
    LET a == frame[t].args
        m == frame[t].method
    IN  IF m = "list_cases" THEN {a.from_time, a.to_time}
        ELSE IF m \in {"list_exports", "list_inspections"}
        THEN {a.from_time, a.to_time} \ {None}
        ELSE IF m = "create_inspection" THEN {a.send_at} \ {None}
        ELSE IF m \in {"postpone_delete_case", "postpone_delete_inspection"}
        THEN {a.ttl}
        ELSE {}

\* C6: every method that accepts a time bound or a deletion timepoint passes
\* it through the validator first: a call with a timestamp the validator
\* rejects fails validation and sends nothing.
C6_RejectedTimestampSendsNothing ==
    \A t \in Threads :
        (pc[t] # "idle" /\ \E ts \in Timestamps(t) : ~strptime_ok(ts))
            => FailedValidation(t)

\* The three joins of three segments have been computed.
Nested == output # <<>> /\ output[1].op = "nested"

\* C7, as claimed: join_url is associative for all segments.
C7_Associative ==
    Nested => output[1].left = output[1].flat
              /\ output[1].right = output[1].flat

\* s has a character other than the separator.
HasName(s) == \E i \in 1..Len(s) : s[i] # "/"

\* C7, amended: join_url is associative for all segments that are not
\* empty once their leading and trailing separators are removed.
C7_AssociativeOnNames ==
    (Nested /\ \A k \in 1..3 : HasName(input[k]))
        => output[1].left = output[1].flat /\ output[1].right = output[1].flat

\* The joins of "//a", "a/a" and "a//" agree.
C7_Witness ==
    /\ Nested
    /\ input = <<<<"/", "/", "a">>, <<"a", "/", "a">>, <<"a", "/", "/">>>>
    /\ output[1].left = <<"a", "/", "a", "/", "a", "/", "a">>
    /\ output[1].right = output[1].left

\* s between its first and its last character that is not a separator.
Core(s) ==
    IF ~HasName(s) THEN <<>>
    ELSE LET lo == CHOOSE i \in 1..Len(s) :
                       s[i] # "/" /\ \A k \in 1..(i - 1) : s[k] = "/"
             hi == CHOOSE i \in 1..Len(s) :
                       s[i] # "/" /\ \A k \in (i + 1)..Len(s) : s[k] = "/"
         IN  SubSeq(s, lo, hi)

RECURSIVE Offset(_, _)
\* Where the k-th segment starts in the joined string, less one.
Offset(segs, k) ==
    IF k = 1 THEN 0 ELSE Offset(segs, k - 1) + Len(Core(segs[k - 1])) + 1

\* C8: join_url(s1, ..., sn) is the segments, each without its leading and
\* trailing separators and otherwise unchanged, with exactly one separator
\* between consecutive segments, an empty segment contributing nothing
\* between its separators.
C8_JoinsCores ==
    (output # <<>> /\ output[1].op = "join_url") =>
        LET n == Len(input)
            r == output[1].value
        IN  IF n = 0 THEN r = <<>>
            ELSE /\ Len(r) = Offset(input, n) + Len(Core(input[n]))
                 /\ \A k \in 1..n :
                      /\ SubSeq(r, Offset(input, k) + 1,
                                Offset(input, k) + Len(Core(input[k])))
                           = Core(input[k])
                      /\ k > 1 => r[Offset(input, k)] = "/"

\* "a/a", "" and "//a" have been joined to "a/a//a".
C8_Witness ==
    /\ output # <<>>
    /\ output[1].op = "join_url"
    /\ input = <<<<"a", "/", "a">>, <<>>, <<"/", "/", "a">>>>
    /\ output[1].value = <<"a", "/", "a", "/", "/", "a">>

\* The message has the two characters "%s" next to each other.
HasToken(message) ==
    \E i \in 1..(Len(message) - 1) : message[i] = "%" /\ message[i + 1] = "s"

\* The call of thread t posts an inspection with the phone and the send time
\* it was given, once, and returns what the server's JSON decodes to.
PostsInspection(t) ==
    LET f == frame[t]
        url == <<"h">> \o INSPECTIONS_URL
    IN  /\ GoesThrough(t)
        /\ f.verb = "POST" /\ f.url = url /\ f.has_data
        /\ {"phone", "sendAt"} \subseteq DOMAIN f.data
        /\ f.data["phone"] = f.args.phone
        /\ f.data["sendAt"] = f.args.send_at
        /\ \A r \in Wire(t) :
               r.verb = "POST" /\ r.url = url /\ r.has_json /\ r.json = f.data
        /\ (Answered(t) /\ f.response.status_code \in 200..299
              /\ f.response.text = JSON_OBJECT)
             => f.result.kind = "return" /\ DOMAIN f.result.value = {}

\* C9, as claimed: create_inspection with send_at and without phone fails
\* validation and sends nothing; with a phone and a well-formed send_at it
\* issues one POST to /inspections with phone and sendAt in the body.
C9_PhoneSupplied ==
    \A t \in Threads :
        In(t, "create_inspection") =>
            LET a == frame[t].args
            IN  /\ (a.send_at # None /\ a.phone = None) => FailedValidation(t)
                /\ (a.phone # None /\ a.send_at # None
                      /\ IsoPattern(a.send_at)) => PostsInspection(t)

\* C9, amended: create_inspection with send_at and without phone fails
\* validation and sends nothing; with a non-empty phone, a well-formed
\* send_at and an invitation message that is omitted or contains "%s" it
\* issues one POST to /inspections with phone and sendAt in the body, and
\* returns the decoded response when the server answers 2xx with JSON.
C9_NonEmptyPhoneSupplied ==
    \A t \in Threads :
        In(t, "create_inspection") =>
            LET a == frame[t].args
            IN  /\ (a.send_at # None /\ a.phone = None) => FailedValidation(t)
                /\ (a.phone # None /\ a.phone # <<>> /\ a.send_at # None
                      /\ IsoPattern(a.send_at)
                      /\ (a.message = None \/ HasToken(a.message)))
                     => PostsInspection(t)

\* A scheduled inspection with a phone has been posted and answered 201.
C9_Witness ==
    \E t \in Threads :
        /\ In(t, "create_inspection")
        /\ frame[t].args.phone = <<"7">>
        /\ frame[t].args.send_at = TS_GOOD
        /\ Len(frame[t].wire) = 1
        /\ frame[t].response = [status_code |-> 201, text |-> JSON_OBJECT]
        /\ frame[t].result.kind = "return"

\* C10: create_inspection with an invitation message without "%s" fails
\* validation and sends nothing, whatever the other arguments; a message
\* with the token goes unchanged into the body as invitationMessage.
C10_MessageNeedsToken ==
    \A t \in Threads :
        (In(t, "create_inspection") /\ frame[t].args.message # None) =>
            IF HasToken(frame[t].args.message)
            THEN /\ frame[t].has_data =>
                      frame[t].data["invitationMessage"] = frame[t].args.message
                 /\ \A r \in Wire(t) :
                      r.json["invitationMessage"] = frame[t].args.message
            ELSE FailedValidation(t)

\* The message "a%sb" has been sent as invitationMessage.
C10_Witness ==
    \E t \in Threads :
        /\ In(t, "create_inspection")
        /\ frame[t].args.message = <<"a", "%", "s", "b">>
        /\ Len(frame[t].wire) = 1
        /\ frame[t].wire[1].json["invitationMessage"] = <<"a", "%", "s", "b">>

\* The optional fields of method m that go into the JSON body: the argument
\* and the key it is sent under.
OptionalBody(m) ==
    IF m \in {"create_case", "upload_photo", "upload_photo_from_file",
              "upload_pdf", "upload_pdf_from_file"}
    THEN {<<"metadata", "metadata">>}
    ELSE IF m = "create_inspection"
    THEN {<<"phone", "phone">>, <<"message", "invitationMessage">>,
          <<"send_at", "sendAt">>, <<"metadata", "metadata">>}
    ELSE {}

\* The optional fields of method m that go into the query parameters.
OptionalParams(m) ==
    IF m \in {"list_exports", "list_inspections"}
    THEN {<<"from_time", "from">>, <<"to_time", "to">>}
    ELSE {}

\* The body of the call of thread t has a key for an optional field exactly
\* when the caller supplied the field, and then with the caller's value.
BodyKeyIffSupplied(t) ==
    \A o \in OptionalBody(frame[t].method) :
        /\ o[2] \in DOMAIN frame[t].data <=> frame[t].args[o[1]] # None
        /\ o[2] \in DOMAIN frame[t].data
             => frame[t].data[o[2]] = frame[t].args[o[1]]

\* C11, as claimed: the payload handed to ApiManager.query, body or query
\* parameters, has a key for an optional field if and only if the caller
\* supplied the field.
C11_KeyIffSupplied ==
    \A t \in Threads :
        Issues(t) =>
            /\ BodyKeyIffSupplied(t)
            /\ \A o \in OptionalParams(frame[t].method) :
                 o[2] \in DOMAIN frame[t].params
                     <=> frame[t].args[o[1]] # None

\* C11, amended: a JSON body has a key for an optional field if and only if
\* the caller supplied the field.  The query parameters list_exports and
\* list_inspections hand to ApiManager.query always have the keys from and
\* to, None standing for an omitted bound; the query string of the request
\* has the key of a bound if and only if the caller supplied it.
C11_BodyKeyIffSupplied ==
    \A t \in Threads :
        Issues(t) =>
            /\ BodyKeyIffSupplied(t)
            /\ \A o \in OptionalParams(frame[t].method) :
                 /\ o[2] \in DOMAIN frame[t].params
                 /\ frame[t].params[o[2]] = frame[t].args[o[1]]
                 /\ \A r \in Wire(t) :
                      /\ o[2] \in DOMAIN r.query
                           <=> frame[t].args[o[1]] # None
                      /\ o[2] \in DOMAIN r.query
                           => r.query[o[2]] = frame[t].args[o[1]]

\* list_exports, called with the bound to and without from, has handed over
\* params that hold from as None and sent a request whose query string has
\* no key from.
C11_Witness ==
    \E t \in Threads :
        /\ In(t, "list_exports")
        /\ frame[t].args.from_time = None
        /\ frame[t].args.to_time = TS_GOOD
        /\ frame[t].params["from"] = None
        /\ Len(frame[t].wire) = 1
        /\ DOMAIN frame[t].wire[1].query = {"to", "source", "type"}

\* The path get_export_csv writes to in the call of thread t.
Destination(t) == csv_path(frame[t].args.exp_id, frame[t].args.file_path)

\* The one request of get_export_csv: a GET of /exports/{exp_id}/download.
DownloadRequest(t, r) ==
    /\ r.verb = "GET"
    /\ r.url = <<"h">> \o EXPORTS_URL \o <<"/">> \o frame[t].args.exp_id
                 \o <<"/", "d", "o", "w", "n", "l", "o", "a", "d">>
    /\ ~r.has_json /\ ~r.has_params

\* Thread t's get_export_csv receives a 2xx response in this step, and its
\* destination can be opened for writing.
Downloads(t) ==
    /\ In(t, "get_export_csv")
    /\ pc[t] = "request" /\ pc'[t] = "done"
    /\ frame'[t].response.status_code \in 200..299
    /\ writable(Destination(t))

\* The caller gave a destination.
file_path_given(t) == frame[t].args.file_path # None

\* C12: get_export_csv issues one GET to /exports/{exp_id}/download and
\* writes the text of the response body verbatim to exactly one file, the
\* caller's file_path when given and searpent-classy-{source}-{exp_id}.csv
\* otherwise.
C12_WritesBodyVerbatim ==
    [][\A t \in Threads :
          Downloads(t) =>
              /\ Len(frame'[t].wire) = 1
              /\ DownloadRequest(t, frame'[t].wire[1])
              /\ fs' = update(fs, Destination(t), frame'[t].response.text)
              /\ file_path_given(t) => Destination(t) = frame[t].args.file_path
              /\ ~file_path_given(t) =>
                     Destination(t) = CSV_PREFIX \o SOURCE \o <<"-">>
                                        \o frame[t].args.exp_id \o CSV_EXT]_vars

\* The setting of name in the environment of the construction, if any.
Setting(name) ==
    IF name \in DOMAIN input.environ THEN input.environ[name] ELSE None

\* The explicit argument if given, else the environment's setting, else None.
Resolved(argument, name) ==
    IF argument # None THEN argument ELSE Setting(name)

\* The constructor has run.
ConstructorRan == output # <<>> /\ output[1].op = "ClassySDK"

\* C13: the base URL and the credential are each resolved as explicit
\* argument, else environment setting, else error: construction fails, with
\* no client, exactly when one of the two has neither; the timeout is the
\* given value or 30.
C13_ArgumentThenEnvironment ==
    ConstructorRan =>
        LET url == Resolved(input.api_url, "API_URL")
            token == Resolved(input.api_token, "API_TOKEN")
        IN  IF url = None \/ token = None
            THEN /\ output[1].raised
                 /\ api = NoApiManager /\ sdk = NoClassySDK
            ELSE /\ ~output[1].raised
                 /\ api.api_url = url /\ sdk.url = url
                 /\ api.api_token = token
                 /\ api.headers = ("x-api-key" :> token)
                 /\ api.timeout = IF input.timeout_given
                                  THEN input.timeout ELSE 30
                 /\ sdk.source = input.source

\* A client has been constructed with the URL given, although the
\* environment sets another, the token taken from the environment, and the
\* timeout defaulted.
C13_Witness ==
    /\ ConstructorRan
    /\ input.api_url = API_URL
    /\ Setting("API_URL") = <<"e">>
    /\ input.api_token = None
    /\ ~input.timeout_given
    /\ api = [api_url |-> API_URL, api_token |-> <<"e">>, timeout |-> 30,
              headers |-> ("x-api-key" :> <<"e">>)]

\* C14: the configuration of the client is immutable: whatever calls have
\* been made, the base URL, the credential, the timeout and the stored
\* header map are as they were right after construction.
C14_ConfigurationImmutable ==
    /\ api.api_url = ApiManager.api_url
    /\ api.api_token = ApiManager.api_token
    /\ api.timeout = ApiManager.timeout
    /\ api.headers = ApiManager.headers
    /\ sdk = ClassySDK

\* The requests the call of thread t has caused on the network: those query
\* handed to the HTTP client and those the client sent to follow redirects.
NetworkRequests(t) == Len(frame[t].wire) + frame[t].hops

\* The call of thread t went into query and is over.
QueryOver(t) ==
    /\ pc[t] = "done"
    /\ frame[t].wire # <<>> \/ frame[t].result.exc \in {"HTTPError", "Timeout"}

\* C15, as claimed: a call of query performs exactly one network request,
\* and an endpoint method at most one.
C15_OneNetworkRequest ==
    \A t \in Threads :
        /\ NetworkRequests(t) <= 1
        /\ QueryOver(t) => NetworkRequests(t) = 1

\* C15, amended: a call of query hands exactly one request to the HTTP
\* client, after a failure status and after a timeout as well; an endpoint
\* method hands over at most one and none when it fails before query.  The
\* only further network requests are those the HTTP client sends to follow
\* redirects before the response.
C15_OneClientRequest ==
    \A t \in Threads :
        /\ Len(frame[t].wire) <= 1
        /\ QueryOver(t) => Len(frame[t].wire) = 1
        /\ (pc[t] = "done" /\ ~QueryOver(t)) => NetworkRequests(t) = 0
        /\ pc[t] = "idle" => NetworkRequests(t) = 0

\* A request has timed out after a redirect, and the call is over with one
\* request handed to the HTTP client.
C15_Witness ==
    \E t \in Threads :
        /\ QueryOver(t)
        /\ frame[t].result.exc = "Timeout"
        /\ frame[t].hops = 1
        /\ Len(frame[t].wire) = 1

\* Thread t's get_export_csv ends in this step.
CsvEnds(t) ==
    In(t, "get_export_csv") /\ pc[t] = "request" /\ pc'[t] = "done"

\* Every file but the one at path is as it was.
OnlyChanges(path) ==
    /\ DOMAIN fs' \subseteq DOMAIN fs \cup {path}
    /\ \A p \in DOMAIN fs : p # path => p \in DOMAIN fs' /\ fs'[p] = fs[p]

\* C16, as claimed: get_export_csv opens its file only after the download
\* has returned a success status; when the request fails with an HTTP error
\* or times out no file is created and an existing one keeps its contents.
C16_FileOnlyAfterSuccess ==
    [][/\ fs' # fs =>
            \E t \in Threads :
                /\ CsvEnds(t)
                /\ frame'[t].response.status_code \in 200..299
                /\ OnlyChanges(Destination(t))
       /\ \A t \in Threads :
            (CsvEnds(t) /\ frame'[t].result.exc \in {"HTTPError", "Timeout"})
                => fs' = fs]_vars

\* C16, amended: get_export_csv opens its file only after query has
\* returned the response of the download, which it does for every status
\* below 400; when the request fails with an HTTP error (a status from 400
\* to 599) or times out no file is created and an existing one keeps its
\* contents.
C16_FileOnlyAfterResponse ==
    [][/\ fs' # fs =>
            \E t \in Threads :
                /\ CsvEnds(t)
                /\ frame'[t].response.status_code \in 1..399
                /\ frame'[t].result = Returned(None)
                /\ OnlyChanges(Destination(t))
       /\ \A t \in Threads :
            (CsvEnds(t) /\ frame'[t].result.kind = "raise") => fs' = fs]_vars

\* A download to the file "o", which an earlier download left holding "x",
\* has failed with status 500, and the file still holds "x".
C16_Witness ==
    \E t \in Threads :
        /\ In(t, "get_export_csv")
        /\ frame[t].args.file_path = OUT_CSV
        /\ frame[t].result = Raised("HTTPError",
                                    [status_code |-> 500, text |-> <<"x">>])
        /\ fs[OUT_CSV] = <<"x">>

\* The methods that upload a file of the caller's.
FromFile == {"upload_photo_from_file", "upload_pdf_from_file"}

\* C17: upload_photo_from_file and upload_pdf_from_file read and encode the
\* source file before the request is issued: a file that cannot be read
\* makes the call fail with an I/O error and no request, and
\* upload_pdf_from_file checks the suffixes before it reads, so that a wrong
\* extension fails without the file being opened.
C17_ReadsBeforeRequest ==
    \A t \in Threads :
        (pc[t] # "idle" /\ frame[t].method \in FromFile) =>
            LET a == frame[t].args
                pdf == frame[t].method = "upload_pdf_from_file"
                named == HasPdfExtension(a.file_path)
                           /\ HasPdfExtension(a.filename)
            IN  /\ Issues(t) =>
                     /\ frame[t].opened = <<a.file_path>>
                     /\ a.file_path \in DOMAIN fs
                     /\ frame[t].data["photo"] = b64encode(fs[a.file_path])
                     /\ \A r \in Wire(t) :
                          r.json["photo"] = b64encode(fs[a.file_path])
                /\ (a.file_path \notin DOMAIN fs /\ (pdf => named))
                     => FailedOnFile(t) /\ frame[t].opened = <<a.file_path>>
                /\ (pdf /\ ~named)
                     => FailedValidation(t) /\ frame[t].opened = <<>>

\* upload_photo_from_file has failed on the missing file "b.pdf" with an
\* OSError and nothing sent.
C17_Witness ==
    \E t \in Threads :
        /\ In(t, "upload_photo_from_file")
        /\ frame[t].args.file_path = B_PDF
        /\ frame[t].opened = <<B_PDF>>
        /\ frame[t].result = Raised("OSError", NoResponse)
        /\ frame[t].wire = <<>>

====
